---- MODULE Spec2Model ----
(***************************************************************************)
(* Model of the Mist AP site-assignment pipeline: the Flask core           *)
(* (Flask_UI/core.py driven by Flask_UI/app.py:run) and the CLI            *)
(* (cli/mist_assign_aps.py:main).  Strings are TLA+ strings, handled       *)
(* character by character with Head, Tail, SubSeq and \o.  A table cell is *)
(* the empty tuple (a missing value, pandas NaN / Python None) or a        *)
(* one-element tuple holding the cell's string.                            *)
(***************************************************************************)
EXTENDS Integers, Sequences, FiniteSets, TLC

VARIABLES adapter, raw, remote_inventory, pc, df, inv_map, issues, idx,
          ok, bad, calls, artifacts, error

vars == <<adapter, raw, remote_inventory, pc, df, inv_map, issues, idx,
          ok, bad, calls, artifacts, error>>

\* Largest number of data rows of an input file.
MaxRows == 2

-----------------------------------------------------------------------------
\* Python string helpers

\* The characters str.strip() removes (str.isspace), among the characters a
\* string of this module can hold: space, tab,
\* line feed, carriage return, form feed, then vertical tab, the separators
\* U+001C..U+001F, next line U+0085, no-break space U+00A0, ogham space U+1680
Whitespace ==
    {" ", "\t", "\n", "\r", "\f",
     "", "", "", "", "", "", " ", " "}

\* A string of this module can hold the characters up to U+00FF other than
\* the backtick, and the characters U+0100..U+FFFF whose low byte is 0x80 or
\* more; the tables below list the characters of that alphabet.

\* The letters that str.lower() changes, and their lower-case forms in the
\* same order
UpperLetters ==
    "ABCDEFGHIJKLMNOPQRSTUVWXYZÀÁÂÃÄÅÆÇÈÉÊËÌÍÎÏÐÑÒÓÔÕÖØÙÚÛÜÝÞƂƄƇƋƎƑƘƠ" \o
    "ƢƤƦƧƩƬƮƯƱƲƳƵƷƸƼǄǅǇǈǊǋǍǏǑǓǕǗǙǛǞǠǢǤǦǨǪǬǮǱǲǴǶǷǸǺǼǾΆΈΉΊΌΎΏΑΒΓΔΕΖΗΘΙΚ" \o
    "ΛΜΝΞΟΠΡΣΤΥΦΧΨΩΪΫϏϘϚϜϞϠϢϤϦϨϪϬϮϴϷϹϺҀҊҌҎҐҒҔҖҘҚҜҞҠҢҤҦҨҪҬҮҰҲҴҶҸҺҼҾӀӁӃ" \o
    "ӅӇӉӋӍӐӒӔӖӘӚӜӞӠӢӤӦӨӪӬӮӰӲӴӶӸӺӼӾᎰᎱᎲᎳᎴᎵᎶᎷᎸᎹᎺᎻᎼᎽᎾᎿᏀᏁᏂᏃᏄᏅᏆᏇᏈᏉᏊᏋᏌᏍᏎᏏᏐᏑᏒ" \o
    "ᏓᏔᏕᏖᏗᏘᏙᏚᏛᏜᏝᏞᏟᏠᏡᏢᏣᏤᏥᏦᏧᏨᏩᏪᏫᏬᏭᏮᏯᏰᏱᏲᏳᏴᏵᲐᲑᲒᲓᲔᲕᲖᲗᲘᲙᲚᲛᲜᲝᲞᲟᲠᲡᲢᲣᲤᲥᲦᲧᲨᲩᲪᲫᲬ" \o
    "ᲭᲮᲯᲰᲱᲲᲳᲴᲵᲶᲷᲸᲹᲺᲽᲾᲿẀẂẄẆẈẊẌẎẐẒẔẞẠẢẤẦẨẪẬẮẰẲẴẶẸẺẼẾỀỂỄỆỈỊỌỎỐỒỔỖỘỚỜỞỠỢỤ" \o
    "ỦỨỪỬỮỰỲỴỶỸỺỼỾᾈᾉᾊᾋᾌᾍᾎᾏᾘᾙᾚᾛᾜᾝᾞᾟᾨᾩᾪᾫᾬᾭᾮᾯᾸᾹᾼῌῘῙῨῩῬῼↃⒶⒷⒸⒹⒺⒻⒼⒽⒾⒿⓀⓁⓂⓃⓄⓅ" \o
    "ⓆⓇⓈⓉⓊⓋⓌⓍⓎⓏⲀⲂⲄⲆⲈⲊⲌⲎⲐⲒⲔⲖⲘⲚⲜⲞⲠⲢⲤⲦⲨⲪⲬⲮⲰⲲⲴⲶⲸⲺⲼⲾⳀⳂⳄⳆⳈⳊⳌⳎⳐⳒⳔⳖⳘⳚⳜⳞⳠⳢⳫⳭⳲꚀ" \o
    "ꚂꚄꚆꚈꚊꚌꚎꚐꚒꚔꚖꚘꚚꞀꞂꞄꞆꞋꞐꞒꞖꞘꞚꞜꞞꞠꞢꞤꞦꞨꞰꞱꞲꞴꞶꞸꞺꞼꞾꟀꟂꟄꟅꟆꟇꟉꟐꟖꟘꟵ"

LowerLetters ==
    "abcdefghijklmnopqrstuvwxyzàáâãäåæçèéêëìíîïðñòóôõöøùúûüýþƃƅƈƌǝƒƙơ" \o
    "ƣƥʀƨʃƭʈưʊʋƴƶʒƹƽǆǆǉǉǌǌǎǐǒǔǖǘǚǜǟǡǣǥǧǩǫǭǯǳǳǵƕƿǹǻǽǿάέήίόύώαβγδεζηθικ" \o
    "λμνξοπρστυφχψωϊϋϗϙϛϝϟϡϣϥϧϩϫϭϯθϸϲϻҁҋҍҏґғҕҗҙқҝҟҡңҥҧҩҫҭүұҳҵҷҹһҽҿӏӂӄ" \o
    "ӆӈӊӌӎӑӓӕӗәӛӝӟӡӣӥӧөӫӭӯӱӳӵӷӹӻӽӿꮀꮁꮂꮃꮄꮅꮆꮇꮈꮉꮊꮋꮌꮍꮎꮏꮐꮑꮒꮓꮔꮕꮖꮗꮘꮙꮚꮛꮜꮝꮞꮟꮠꮡꮢ" \o
    "ꮣꮤꮥꮦꮧꮨꮩꮪꮫꮬꮭꮮꮯꮰꮱꮲꮳꮴꮵꮶꮷꮸꮹꮺꮻꮼꮽꮾꮿᏸᏹᏺᏻᏼᏽაბგდევზთიკლმნოპჟრსტუფქღყშჩცძწ" \o
    "ჭხჯჰჱჲჳჴჵჶჷჸჹჺჽჾჿẁẃẅẇẉẋẍẏẑẓẕßạảấầẩẫậắằẳẵặẹẻẽếềểễệỉịọỏốồổỗộớờởỡợụ" \o
    "ủứừửữựỳỵỷỹỻỽỿᾀᾁᾂᾃᾄᾅᾆᾇᾐᾑᾒᾓᾔᾕᾖᾗᾠᾡᾢᾣᾤᾥᾦᾧᾰᾱᾳῃῐῑῠῡῥῳↄⓐⓑⓒⓓⓔⓕⓖⓗⓘⓙⓚⓛⓜⓝⓞⓟ" \o
    "ⓠⓡⓢⓣⓤⓥⓦⓧⓨⓩⲁⲃⲅⲇⲉⲋⲍⲏⲑⲓⲕⲗⲙⲛⲝⲟⲡⲣⲥⲧⲩⲫⲭⲯⲱⲳⲵⲷⲹⲻⲽⲿⳁⳃⳅⳇⳉⳋⳍⳏⳑⳓⳕⳗⳙⳛⳝⳟⳡⳣⳬⳮⳳꚁ" \o
    "ꚃꚅꚇꚉꚋꚍꚏꚑꚓꚕꚗꚙꚛꞁꞃꞅꞇꞌꞑꞓꞗꞙꞛꞝꞟꞡꞣꞥꞧꞩʞʇʝꞵꞷꞹꞻꞽꞿꟁꟃꞔʂᶎꟈꟊꟑꟗꟙꟶ"

\* The letters that str.lower() changes into a character no string of this
\* module can hold: lower is not defined on them
NoLowerForm ==
    "ƁƆƉƊƏƐƓƔƖƗƜƝƟϽϾϿႠႡႢႣႤႥႦႧႨႩႪႫႬႭႮႯႰႱႲႳႴႵႶႷႸႹႺႻႼႽႾႿჀჁჂჃჄჅჇჍᎠᎡᎢᎣᎤᎥᎦᎧ" \o
    "ᎨᎩᎪᎫᎬᎭᎮᎯᾺΆῈΈῊΉῚΊῪΎῸΌῺΏꞍꞪꞫꞬꞭꞮꞳ"

\* The characters _PyUnicode_IsCased holds for
CasedLetters ==
    "ABCDEFGHIJKLMNOPQRSTUVWXYZabcdefghijklmnopqrstuvwxyzªµºÀÁÂÃÄÅÆÇÈ" \o
    "ÉÊËÌÍÎÏÐÑÒÓÔÕÖØÙÚÛÜÝÞßàáâãäåæçèéêëìíîïðñòóôõöøùúûüýþÿƀƁƂƃƄƅƆƇƈƉƊ" \o
    "ƋƌƍƎƏƐƑƒƓƔƕƖƗƘƙƚƛƜƝƞƟƠơƢƣƤƥƦƧƨƩƪƫƬƭƮƯưƱƲƳƴƵƶƷƸƹƺƼƽƾƿǄǅǆǇǈǉǊǋǌǍǎǏ" \o
    "ǐǑǒǓǔǕǖǗǘǙǚǛǜǝǞǟǠǡǢǣǤǥǦǧǨǩǪǫǬǭǮǯǰǱǲǳǴǵǶǷǸǹǺǻǼǽǾǿʀʁʂʃʄʅʆʇʈʉʊʋʌʍʎʏ" \o
    "ʐʑʒʓʕʖʗʘʙʚʛʜʝʞʟʠʡʢʣʤʥʦʧʨʩʪʫʬʭʮʯʰʱʲʳʴʵʶʷʸˀˁˠˡˢˣˤΆΈΉΊΌΎΏΐΑΒΓΔΕΖΗΘΙ" \o
    "ΚΛΜΝΞΟΠΡΣΤΥΦΧΨΩΪΫάέήίΰαβγδεζηθικλμνξοπρςστυφχψωϊϋόύώϏϐϑϒϓϔϕϖϗϘϙϚ" \o
    "ϛϜϝϞϟϠϡϢϣϤϥϦϧϨϩϪϫϬϭϮϯϰϱϲϳϴϵϷϸϹϺϻϼϽϾϿҀҁҊҋҌҍҎҏҐґҒғҔҕҖҗҘҙҚқҜҝҞҟҠҡҢң" \o
    "ҤҥҦҧҨҩҪҫҬҭҮүҰұҲҳҴҵҶҷҸҹҺһҼҽҾҿӀӁӂӃӄӅӆӇӈӉӊӋӌӍӎӏӐӑӒӓӔӕӖӗӘәӚӛӜӝӞӟӠӡӢӣ" \o
    "ӤӥӦӧӨөӪӫӬӭӮӯӰӱӲӳӴӵӶӷӸӹӺӻӼӽӾӿրցւփքօֆևֈႠႡႢႣႤႥႦႧႨႩႪႫႬႭႮႯႰႱႲႳႴႵႶႷႸႹႺ" \o
    "ႻႼႽႾႿჀჁჂჃჄჅჇჍაბგდევზთიკლმნოპჟრსტუფქღყშჩცძწჭხჯჰჱჲჳჴჵჶჷჸჹჺჽჾჿᎠᎡᎢᎣᎤ" \o
    "ᎥᎦᎧᎨᎩᎪᎫᎬᎭᎮᎯᎰᎱᎲᎳᎴᎵᎶᎷᎸᎹᎺᎻᎼᎽᎾᎿᏀᏁᏂᏃᏄᏅᏆᏇᏈᏉᏊᏋᏌᏍᏎᏏᏐᏑᏒᏓᏔᏕᏖᏗᏘᏙᏚᏛᏜᏝᏞᏟᏠᏡᏢᏣᏤ" \o
    "ᏥᏦᏧᏨᏩᏪᏫᏬᏭᏮᏯᏰᏱᏲᏳᏴᏵᏸᏹᏺᏻᏼᏽᲀᲁᲂᲃᲄᲅᲆᲇᲈᲐᲑᲒᲓᲔᲕᲖᲗᲘᲙᲚᲛᲜᲝᲞᲟᲠᲡᲢᲣᲤᲥᲦᲧᲨᲩᲪᲫᲬᲭᲮᲯ" \o
    "ᲰᲱᲲᲳᲴᲵᲶᲷᲸᲹᲺᲽᲾᲿᶀᶁᶂᶃᶄᶅᶆᶇᶈᶉᶊᶋᶌᶍᶎᶏᶐᶑᶒᶓᶔᶕᶖᶗᶘᶙᶚᶛᶜᶝᶞᶟᶠᶡᶢᶣᶤᶥᶦᶧᶨᶩᶪᶫᶬᶭᶮᶯᶰᶱ" \o
    "ᶲᶳᶴᶵᶶᶷᶸᶹᶺᶻᶼᶽᶾᶿẀẁẂẃẄẅẆẇẈẉẊẋẌẍẎẏẐẑẒẓẔẕẖẗẘẙẚẛẜẝẞẟẠạẢảẤấẦầẨẩẪẫẬậẮắẰằ" \o
    "ẲẳẴẵẶặẸẹẺẻẼẽẾếỀềỂểỄễỆệỈỉỊịỌọỎỏỐốỒồỔổỖỗỘộỚớỜờỞởỠỡỢợỤụỦủỨứỪừỬửỮữỰự" \o
    "ỲỳỴỵỶỷỸỹỺỻỼỽỾỿᾀᾁᾂᾃᾄᾅᾆᾇᾈᾉᾊᾋᾌᾍᾎᾏᾐᾑᾒᾓᾔᾕᾖᾗᾘᾙᾚᾛᾜᾝᾞᾟᾠᾡᾢᾣᾤᾥᾦᾧᾨᾩᾪᾫᾬᾭᾮᾯᾰᾱ" \o
    "ᾲᾳᾴᾶᾷᾸᾹᾺΆᾼιῂῃῄῆῇῈΈῊΉῌῐῑῒΐῖῗῘῙῚΊῠῡῢΰῤῥῦῧῨῩῪΎῬῲῳῴῶῷῸΌῺΏῼₐₑₒₓₔₕₖₗₘₙ" \o
    "ₚₛₜↃↄⒶⒷⒸⒹⒺⒻⒼⒽⒾⒿⓀⓁⓂⓃⓄⓅⓆⓇⓈⓉⓊⓋⓌⓍⓎⓏⓐⓑⓒⓓⓔⓕⓖⓗⓘⓙⓚⓛⓜⓝⓞⓟⓠⓡⓢⓣⓤⓥⓦⓧⓨⓩⲀⲁⲂⲃⲄⲅⲆ" \o
    "ⲇⲈⲉⲊⲋⲌⲍⲎⲏⲐⲑⲒⲓⲔⲕⲖⲗⲘⲙⲚⲛⲜⲝⲞⲟⲠⲡⲢⲣⲤⲥⲦⲧⲨⲩⲪⲫⲬⲭⲮⲯⲰⲱⲲⲳⲴⲵⲶⲷⲸⲹⲺⲻⲼⲽⲾⲿⳀⳁⳂⳃⳄⳅⳆ" \o
    "ⳇⳈⳉⳊⳋⳌⳍⳎⳏⳐⳑⳒⳓⳔⳕⳖⳗⳘⳙⳚⳛⳜⳝⳞⳟⳠⳡⳢⳣⳤⳫⳬⳭⳮⳲⳳꚀꚁꚂꚃꚄꚅꚆꚇꚈꚉꚊꚋꚌꚍꚎꚏꚐꚑꚒꚓꚔꚕꚖꚗꚘꚙꚚꚛ" \o
    "ꚜꚝꞀꞁꞂꞃꞄꞅꞆꞇꞋꞌꞍꞎꞐꞑꞒꞓꞔꞕꞖꞗꞘꞙꞚꞛꞜꞝꞞꞟꞠꞡꞢꞣꞤꞥꞦꞧꞨꞩꞪꞫꞬꞭꞮꞯꞰꞱꞲꞳꞴꞵꞶꞷꞸꞹꞺꞻꞼꞽꞾꞿꟀꟁ" \o
    "ꟂꟃꟄꟅꟆꟇꟈꟉꟊꟐꟑꟓꟕꟖꟗꟘꟙꟵꟶꟸꟹꟺꮀꮁꮂꮃꮄꮅꮆꮇꮈꮉꮊꮋꮌꮍꮎꮏꮐꮑꮒꮓꮔꮕꮖꮗꮘꮙꮚꮛꮜꮝꮞꮟꮠꮡꮢꮣꮤꮥꮦꮧꮨꮩ" \o
    "ꮪꮫꮬꮭꮮꮯꮰꮱꮲꮳꮴꮵꮶꮷꮸꮹꮺꮻꮼꮽꮾꮿ"

\* The characters _PyUnicode_IsCaseIgnorable holds for
CaseIgnorables ==
    "'.:^¨­¯´·¸ʰʱʲʳʴʵʶʷʸʹʺʻʼʽʾʿˀˁ˂˃˄˅ˆˇˈˉˊˋˌˍˎˏːˑ˒˓˔˕˖˗˘˙˚˛˜˝˞˟ˠˡˢˣˤ˥" \o
    "˦˧˨˩˪˫ˬ˭ˮ˯˰˱˲˳˴˵˶˷˸˹˺˻˼˽˾˿΄΅·҃҄҅҆҇҈҉֑֖֛֢֣֤֥֦֧֪֚֒֓֔֕֗֘֙֜֝֞֟֠֡֨֩֫֬" \o
    "ְֱֲֳִֵֶַָׇֹֺֻּֽֿׁׂׅ֭֮֯ׄ״ۖۗۘۙۚۛۜ۝ۣ۟۠ۡۢۤۥۦ۪ۭۧۨ۫۬ަާިީުޫެޭޮޯް߫߬߭߮߯߰߱" \o
    "߲߳ߴߵߺ߽࢈࢐࢑࢙࢚࢛࢘࢜࢝࢞࢟ࣉ࣏࣐࣑࣒࣓࣊࣋࣌࣍࣎ࣔࣕࣖࣗࣘࣙࣚࣛࣜࣝࣞࣟ࣠࣡࣢ࣰࣱࣲࣣࣦࣩ࣭࣮࣯ࣶࣤࣥࣧࣨ࣪࣫࣬ࣳࣴࣵࣷ" \o
    "ࣹࣺࣸࣻࣼࣽࣾࣿঁ়ুূৃৄ্ৢৣ৾ઁં઼ુૂૃૄૅેૈ્ૢૣૺૻૼ૽૾૿ஂீ்ಁ಼ಿೆೌ್ೢೣඁ්ිීුූັິີຶື຺ຸູົຼ" \o
    "ໆ່້໊໋໌ໍ྄ཱྀྀྂྃ྆྇ྍྎྏྐྑྒྒྷྔྕྖྗྙྚྛྜྜྷྞྟྠྡྡྷྣྤྥྦྦྷྨྩྪྫྫྷྭྮྯྰྱྲླྴྵྶྷྸྐྵྺྻྼ࿆ႂႅ" \o
    "ႆႍႝჼ឴឵ិីឹឺុូួំ៉៊់៌៍៎៏័៑្៓ៗ៝ᢅᢆᢩᪧ᪵᪶᪷᪸᪹᪺᪽᪰᪱᪲᪳᪴᪻᪼᪾ᪿᫀ᫃᫄᫊᫁᫂᫅᫆᫇᫈᫉᫋ᫌᫍᫎᮀᮁ" \o
    "ᮢᮣᮤᮥᮨᮩ᮫ᮬᮭ᯦ᯨᯩᯭᯯᯰᯱ᳔᳢᳣᳤᳥᳦᳧᳨᳕᳖᳗᳘᳙᳜᳝᳞᳟᳭᳐᳑᳒᳚᳛᳠᳴᳸᳹ᶛᶜᶝᶞᶟᶠᶡᶢᶣᶤᶥᶦᶧᶨᶩᶪᶫᶬᶭᶮᶯ" \o
    "ᶰᶱᶲᶳᶴᶵᶶᶷᶸᶹᶺᶻᶼᶽᶾᶿ᷐᷎᷂᷊᷏᷀᷁᷃᷄᷅᷆᷇᷈᷉᷋᷌᷑᷒ᷓᷔᷕᷖᷗᷘᷙᷚᷛᷜᷝᷞᷟᷠᷡᷢᷣᷤᷥᷦᷧᷨᷩᷪᷫᷬᷭᷮᷯ᷍" \o
    "᷺᷹᷽᷿᷷᷸ᷰᷱᷲᷳᷴ᷵᷻᷾᷶᷼᾽᾿῀῁῍῎῏῝῞῟῭΅`´῾ₐₑₒₓₔₕₖₗₘₙₚₛₜ⃒⃓⃘⃙⃚⃐⃑⃔⃕⃖⃗⃛⃜⃝⃞⃟⃠⃡⃢⃣" \o
    "⃤⃥⃦⃪⃫゙゚⃨⃬⃭⃮⃯⃧⃩⃰⳯⳰⳱ⷠⷡⷢⷣⷤⷥⷦⷧⷨⷩⷪⷫⷬⷭⷮⷯⷰⷱⷲⷳⷴⷵⷶⷷⷸⷹⷺⷻⷼⷽⷾⷿ゛゜ゝゞーヽヾꓸꓹꓺꓻꓼꓽꚜ" \o
    "ꚝꚞꚟ꛰꛱ꞈ꞉꞊ꟲꟳꟴꟸꟹ꣄ꣅ꣠꣡꣢꣣꣤꣥꣦꣧꣨꣩꣪꣫꣬꣭꣮꣯꣰꣱ꣿꦀꦁꦂ꦳ꦶꦷꦸꦹꦼꦽꧏꧥꧦꪴꪰꪲꪳꪷꪸꪾ꪿꫁ꫝꫬꫭꫳꫴ꫶ꯥꯨ" \o
    "꯭﮲﮳﮴﮵﮶﮷﮸﮹﮺﮻﮼﮽﮾﮿﯀﯁﯂﻿ﾞﾟ￣￹￺￻"

Chars(s) == {SubSeq(s, i, i) : i \in 1..Len(s)}

Upper == Chars(UpperLetters)

\* The lower-case letter of each upper-case letter
LowerOf ==
    [c \in Upper |->
        LET i == CHOOSE i \in 1..Len(UpperLetters) : SubSeq(UpperLetters, i, i) = c
        IN  SubSeq(LowerLetters, i, i)]

Undefined == CHOOSE c \in {} : TRUE

NoLowerFormOf == Chars(NoLowerForm)

\* str.lower() on a string of one character
LowerChar(c) ==
    IF c \in Upper THEN LowerOf[c]
    ELSE IF c \in NoLowerFormOf THEN Undefined
    ELSE c

Cased == Chars(CasedLetters)

CaseIgnorable == Chars(CaseIgnorables)

\* The nearest position before j (j included) that holds no case-ignorable
\* character, 0 when there is none
RECURSIVE SkipBack(_, _)
SkipBack(s, j) ==
    IF j >= 1 /\ SubSeq(s, j, j) \in CaseIgnorable THEN SkipBack(s, j - 1) ELSE j

\* The nearest position after j (j included) that holds no case-ignorable
\* character, Len(s) + 1 when there is none
RECURSIVE SkipForward(_, _)
SkipForward(s, j) ==
    IF j <= Len(s) /\ SubSeq(s, j, j) \in CaseIgnorable
    THEN SkipForward(s, j + 1)
    ELSE j

\* The lower-case form of the capital sigma at position i of s: final sigma
\* when a cased letter precedes it and none follows, case-ignorable
\* characters skipped on both sides
handle_capital_sigma(s, i) ==
    LET b == SkipBack(s, i - 1)
        f == SkipForward(s, i + 1)
    IN  IF /\ b >= 1
           /\ SubSeq(s, b, b) \in Cased
           /\ (f > Len(s) \/ SubSeq(s, f, f) \notin Cased)
        THEN "ς"
        ELSE "σ"

RECURSIVE LowerFrom(_, _)
LowerFrom(s, i) ==
    IF i > Len(s) THEN ""
    ELSE LET c == SubSeq(s, i, i)
         IN  (IF c = "Σ" THEN handle_capital_sigma(s, i) ELSE LowerChar(c))
                \o LowerFrom(s, i + 1)

\* str.lower()
lower(s) == LowerFrom(s, 1)

RECURSIVE lstrip(_)
lstrip(s) == IF s # "" /\ Head(s) \in Whitespace THEN lstrip(Tail(s)) ELSE s

RECURSIVE rstrip(_)
rstrip(s) ==
    IF s # "" /\ SubSeq(s, Len(s), Len(s)) \in Whitespace
    THEN rstrip(SubSeq(s, 1, Len(s) - 1))
    ELSE s

\* str.strip()
strip(s) == rstrip(lstrip(s))

\* str.replace(old, new) for one-character old and new
RECURSIVE replace(_, _, _)
replace(s, old, new) ==
    IF s = "" THEN ""
    ELSE (IF Head(s) = old THEN new ELSE Head(s)) \o replace(Tail(s), old, new)

\* sub in s, for a one-character sub
Contains(s, sub) == \E i \in 1..Len(s) : SubSeq(s, i, i) = sub

\* str.split(sep) for a one-character sep: the list of groups
RECURSIVE SplitFrom(_, _, _)
SplitFrom(s, sep, cur) ==
    IF s = "" THEN <<cur>>
    ELSE IF Head(s) = sep THEN <<cur>> \o SplitFrom(Tail(s), sep, "")
    ELSE SplitFrom(Tail(s), sep, cur \o Head(s))

split(s, sep) == SplitFrom(s, sep, "")

\* sep.join(parts)
RECURSIVE join(_, _)
join(sep, parts) ==
    IF parts = <<>> THEN ""
    ELSE IF Len(parts) = 1 THEN parts[1]
    ELSE parts[1] \o sep \o join(sep, Tail(parts))

-----------------------------------------------------------------------------
\* Cells: a missing value, or a string

NaN == <<>>
Cell(s) == <<s>>

\* `x or ""`: a missing value (None) or an empty string gives ""
OrEmpty(c) == IF c = NaN THEN "" ELSE c[1]

-----------------------------------------------------------------------------
\* Tables (pandas DataFrame with a RangeIndex): column names and rows of cells

REQUIRED_COLUMNS == <<"floor #", "wap hostname", "serial number", "mac address">>

NRows(t) == Len(t.rows)

HasColumn(t, col) == \E j \in 1..Len(t.columns) : t.columns[j] = col

ColIndex(t, col) == CHOOSE j \in 1..Len(t.columns) : t.columns[j] = col

\* row.get(col): the cell of row i (1-based) under col, None when col is absent
Get(t, i, col) == IF HasColumn(t, col) THEN t.rows[i][ColIndex(t, col)] ELSE NaN

\* df[col] = "": a column of the table that has this name is overwritten
\* with empty strings, otherwise a column of empty strings is appended
AddColumn(t, col) ==
    IF HasColumn(t, col)
    THEN [t EXCEPT !.rows = [i \in 1..NRows(t) |->
                                [t.rows[i] EXCEPT ![ColIndex(t, col)] = Cell("")]]]
    ELSE [columns |-> Append(t.columns, col),
          rows    |-> [i \in 1..NRows(t) |-> Append(t.rows[i], Cell(""))]]

\* df.at[i, col] = v
SetAt(t, i, col, v) ==
    [t EXCEPT !.rows[i][ColIndex(t, col)] = Cell(v)]

\* df.iloc[0:0]: the same columns, no rows
NoRows(t) == [columns |-> t.columns, rows |-> <<>>]

\* Series.fillna("")
fillna(c) == IF c = NaN THEN Cell("") ELSE c

\* One header after normalization: str(c).strip().lower()
NormalizeHeader(c) == lower(strip(c))

\* A cell normalization that drops one leading whitespace character only
NormalizeCellOnce(c) ==
    LET v == fillna(c)[1]
    IN  Cell(IF v # "" /\ Head(v) \in Whitespace THEN Tail(v) ELSE v)

\* One cell after normalization: fillna("").astype(str).map(strip)
NormalizeCell(c) == Cell(strip(fillna(c)[1]))

_normalize_dataframe(t) ==
    [columns |-> [j \in 1..Len(t.columns) |-> NormalizeHeader(t.columns[j])],
     rows    |-> [i \in 1..NRows(t) |->
                    [j \in 1..Len(t.rows[i]) |-> NormalizeCell(t.rows[i][j])]]]

_validate_headers(t) ==
    SelectSeq(REQUIRED_COLUMNS, LAMBDA c : ~HasColumn(t, c))

-----------------------------------------------------------------------------
\* MAC canonicalization

\* A canonicalization that leaves hyphens in place
normalize_mac_keep_hyphens(mac) ==
    LET m == lower(strip(mac))
    IN  IF ~Contains(m, ":") /\ Len(m) = 12
        THEN join(":", [k \in 1..6 |-> SubSeq(m, 2 * k - 1, 2 * k)])
        ELSE m

normalize_mac(mac) ==
    LET m == replace(lower(strip(mac)), "-", ":")
    IN  IF ~Contains(m, ":") /\ Len(m) = 12
        THEN join(":", [k \in 1..6 |-> SubSeq(m, 2 * k - 1, 2 * k)])
        ELSE m

\* The format test of the row validator: mac_file and len(mac_file.split(":")) != 6
MacLooksInvalid(mac_file) == mac_file # "" /\ Len(split(mac_file, ":")) # 6

-----------------------------------------------------------------------------
\* Row validation

RowIssue(row, field, value, message) ==
    [row |-> row, field |-> field, value |-> value, message |-> message]

\* A validator that matches serials without regard to case
ValidateRowAnyCase(t, inv, i) ==
    LET serial   == strip(OrEmpty(Get(t, i, "serial number")))
        mac_file == normalize_mac(OrEmpty(Get(t, i, "mac address")))
    IN  IF serial = ""
        THEN <<RowIssue(i, "serial number", "", "Serial Number is blank")>>
        ELSE IF \A s \in DOMAIN inv : lower(s) # lower(serial)
        THEN <<RowIssue(i, "serial number", serial,
                        "Serial not found in Mist org inventory")>>
        ELSE IF MacLooksInvalid(mac_file)
        THEN <<RowIssue(i, "mac address", OrEmpty(Get(t, i, "mac address")),
                        "MAC Address format looks invalid")>>
        ELSE <<>>

\* A validator that numbers the rows from 0
ValidateRowZeroBased(t, inv, i) ==
    LET serial   == strip(OrEmpty(Get(t, i, "serial number")))
        mac_file == normalize_mac(OrEmpty(Get(t, i, "mac address")))
    IN  IF serial = ""
        THEN <<RowIssue(i - 1, "serial number", "", "Serial Number is blank")>>
        ELSE IF serial \notin DOMAIN inv
        THEN <<RowIssue(i - 1, "serial number", serial,
                        "Serial not found in Mist org inventory")>>
        ELSE IF MacLooksInvalid(mac_file)
        THEN <<RowIssue(i - 1, "mac address", OrEmpty(Get(t, i, "mac address")),
                        "MAC Address format looks invalid")>>
        ELSE <<>>

\* The body of the validation loop for row i: no Issue, or one
ValidateRow(t, inv, i) ==
    LET serial   == strip(OrEmpty(Get(t, i, "serial number")))
        mac_file == normalize_mac(OrEmpty(Get(t, i, "mac address")))
    IN  IF serial = ""
        THEN <<RowIssue(i, "serial number", "", "Serial Number is blank")>>
        ELSE IF serial \notin DOMAIN inv
        THEN <<RowIssue(i, "serial number", serial,
                        "Serial not found in Mist org inventory")>>
        ELSE IF MacLooksInvalid(mac_file)
        THEN <<RowIssue(i, "mac address", OrEmpty(Get(t, i, "mac address")),
                        "MAC Address format looks invalid")>>
        ELSE <<>>

RECURSIVE ValidateFrom(_, _, _)
ValidateFrom(t, inv, i) ==
    IF i > NRows(t) THEN <<>>
    ELSE ValidateRow(t, inv, i) \o ValidateFrom(t, inv, i + 1)

_validate_rows(t, inv) == ValidateFrom(t, inv, 1)

\* A header Issue that names the first missing column only
HeaderIssueFirstOnly(missing) ==
    RowIssue(0, "headers", missing[1], "Missing required column(s)")

\* The header-level Issue raised when required columns are missing
HeaderIssue(missing) ==
    RowIssue(0, "headers", join(", ", missing), "Missing required column(s)")

-----------------------------------------------------------------------------
\* Inventory snapshot

\* {str(i.get("serial","")).strip(): i for i in inventory if i.get("serial")}:
\* items without a serial are dropped, a later item replaces an earlier one
BuildInvMap(inventory) ==
    LET kept == {k \in 1..Len(inventory) : OrEmpty(inventory[k].serial) # ""}
        key(k) == strip(inventory[k].serial[1])
    IN  [s \in {key(k) : k \in kept} |->
           inventory[CHOOSE k \in kept :
                        /\ key(k) = s
                        /\ \A l \in kept : key(l) = s => l <= k]]

-----------------------------------------------------------------------------
\* Validation report

\* by_row of the Flask report: Issues with row <= 0 are grouped under 0
by_row_flask(iss, r) ==
    SelectSeq(iss, LAMBDA i : IF r = 0 THEN i.row <= 0 ELSE i.row = r)

\* by_row of the CLI report
by_row_cli(iss, r) == SelectSeq(iss, LAMBDA i : i.row = r)

Messages(group) == [k \in 1..Len(group) |-> group[k].message]
Fields(group)   == [k \in 1..Len(group) |-> group[k].field]
Values(group)   == [k \in 1..Len(group) |-> group[k].value]

WithIssueColumns(t) ==
    AddColumn(AddColumn(AddColumn(t, "issue"), "issue_field"), "issue_value")

\* One row of the report: the issue columns are set when the row has Issues
AnnotateRow(rep, i, group) ==
    IF group = <<>> THEN rep
    ELSE SetAt(SetAt(SetAt(rep, i, "issue", join(" | ", Messages(group))),
                     i, "issue_field", join(" | ", Fields(group))),
               i, "issue_value", join(" | ", Values(group)))

RECURSIVE AnnotateFlask(_, _, _)
AnnotateFlask(rep, iss, i) ==
    IF i > NRows(rep) THEN rep
    ELSE AnnotateFlask(AnnotateRow(rep, i, by_row_flask(iss, i)), iss, i + 1)

RECURSIVE AnnotateCli(_, _, _)
AnnotateCli(rep, iss, i) ==
    IF i > NRows(rep) THEN rep
    ELSE AnnotateCli(AnnotateRow(rep, i, by_row_cli(iss, i)), iss, i + 1)

\* Flask_UI/core.py: a header-only failure gives a one-row report
create_error_report(t, iss) ==
    LET rep  == AnnotateFlask(WithIssueColumns(t), iss, 1)
        head == by_row_flask(iss, 0)
    IN  IF head # <<>> /\ NRows(rep) = 0
        THEN [columns |-> <<"issue", "issue_field", "issue_value">>,
              rows    |-> << <<Cell(join(" | ", Messages(head))),
                               Cell(join(" | ", Fields(head))),
                               Cell(join(" | ", Values(head)))>> >>]
        ELSE rep

\* cli/mist_assign_aps.py
create_validation_report(t, iss) == AnnotateCli(WithIssueColumns(t), iss, 1)

-----------------------------------------------------------------------------
\* Inputs: the uploaded file, the remote inventory, the remote's responses

\* Header rows of the input file, with the logical field each column holds
HeaderPool ==
    { [names  |-> <<"Floor #", "WAP Hostname", "Serial Number", "Mac Address">>,
       fields |-> <<"floor", "host", "serial", "mac">>],
      [names  |-> <<" mac address", "SERIAL NUMBER\r\n", "REMARQUES ÉTAGE",
                    "Wap Hostname", "floor #">>,
       fields |-> <<"mac", "serial", "notes", "host", "floor">>],
      [names  |-> <<"Floor #", "WAP Hostname", "Serial Number", "Mac Address",
                    "Assignment Status">>,
       fields |-> <<"floor", "host", "serial", "mac", "status">>],
      [names  |-> <<"Floor #", "Serial Number", "Mac Address">>,
       fields |-> <<"floor", "serial", "mac">>],
      [names  |-> <<"Serial Number", "ΣΗΜΕΙΩΣΕΙΣ">>,
       fields |-> <<"serial", "notes">>] }

FileRow(serial, mac) ==
    [floor |-> Cell("1 "), host |-> Cell(" AP-Lobby"), notes |-> NaN,
     status |-> Cell("SUCCESS"), serial |-> serial, mac |-> mac]

\* Data rows of the input file, as read (every cell a string or missing)
RowPool ==
    { FileRow(Cell("A1"),   Cell("AA-BB-CC-DD-EE-FF")),
      FileRow(Cell("\tB2\r\n"), NaN),
      FileRow(NaN,          Cell("aa:bb:cc")),
      FileRow(Cell("  "),   Cell("aabbccddeeff")),
      FileRow(Cell("a1"),   Cell("aabbccddeeff")),
      FileRow(Cell("A1"),   Cell("aa:bb:cc")),
      FileRow(Cell("B2"),   Cell("0123456789xy")),
      FileRow(Cell("A1"),   Cell("aabbccddeef")) }

InvItem(serial, mac) == [serial |-> serial, mac |-> mac]

\* What the inventory endpoint answers when the fetch succeeds
InventoryPool ==
    { <<InvItem(Cell("A1"), Cell("AABBCCDDEEFF")),
        InvItem(Cell("B2"), Cell("11-22-33-44-55-66"))>>,
      <<InvItem(Cell(" A1\n"), NaN),
        InvItem(NaN, Cell("aabbccddeeff")),
        InvItem(Cell("B2"), Cell("aa:bb"))>>,
      <<InvItem(Cell("a1"), Cell("")),
        InvItem(Cell("A1"), Cell("11:22:33:44:55:66")),
        InvItem(Cell("A1"), Cell("aabbccddeeff")),
        InvItem(Cell("B2"), NaN)>>,
      <<>> }

\* str(e) of a failed assign call
ErrorDetails == {"400 Client Error", "500 Server Error"}

Responses == {"OK"} \cup ErrorDetails

\* The file with header h and the given rows
MakeTable(h, rows) ==
    [columns |-> h.names,
     rows    |-> [i \in 1..Len(rows) |->
                    [j \in 1..Len(h.fields) |-> rows[i][h.fields[j]]]]]

RowSeqs == UNION {[1..n -> RowPool] : n \in 0..MaxRows}

EmptyTable == [columns |-> <<>>, rows |-> <<>>]

-----------------------------------------------------------------------------
\* The run

Init ==
    /\ adapter \in {"flask", "cli"}
    /\ \E h \in HeaderPool, rows \in RowSeqs : raw = MakeTable(h, rows)
    /\ remote_inventory \in InventoryPool
    /\ pc = IF adapter = "flask" THEN "upload" ELSE "read"
    /\ df = EmptyTable
    /\ inv_map = <<>>
    /\ issues = <<>>
    /\ idx = 1
    /\ ok = 0
    /\ bad = 0
    /\ calls = <<>>
    /\ artifacts = <<>>
    /\ error = ""

\* app.py:upload saves the file and fetches the site catalog for the site
\* menu.  When the fetch fails the route answers with an error page, but the
\* file is saved and /run can still be posted for it.
Upload ==
    /\ pc = "upload"
    /\ \E success \in BOOLEAN :
         calls' = Append(calls, [op |-> "sites", row |-> 0, mac |-> "",
                                 resp |-> IF success THEN "OK" ELSE "failed"])
    /\ pc' = "get_sites"
    /\ UNCHANGED <<adapter, raw, remote_inventory, df, inv_map, issues, idx,
                   ok, bad, artifacts, error>>

\* app.py:run fetches the site catalog before process_file; the CLI fetches it
\* after the header check.  A failed fetch ends the run.
GetSites ==
    /\ pc = "get_sites"
    /\ \E success \in BOOLEAN :
         /\ calls' = Append(calls, [op |-> "sites", row |-> 0, mac |-> "",
                                    resp |-> IF success THEN "OK" ELSE "failed"])
         /\ IF success
            THEN /\ pc' = IF adapter = "flask" THEN "read" ELSE "get_inventory"
                 /\ error' = error
            ELSE /\ pc' = "error"
                 /\ error' = "sites"
    /\ UNCHANGED <<adapter, raw, remote_inventory, df, inv_map, issues, idx,
                   ok, bad, artifacts>>

\* Read the file and normalize it
ReadNormalize ==
    /\ pc = "read"
    /\ df' = _normalize_dataframe(raw)
    /\ pc' = "validate_headers"
    /\ UNCHANGED <<adapter, raw, remote_inventory, inv_map, issues, idx,
                   ok, bad, calls, artifacts, error>>

\* df["assignment status"] = ""; df["error message"] = ""
WithResultColumns(t) == AddColumn(AddColumn(t, "assignment status"), "error message")

\* The schema gate.  Flask adds the result columns right after it, the CLI
\* goes on to the site catalog.
ValidateHeaders ==
    /\ pc = "validate_headers"
    /\ LET missing == _validate_headers(df)
       IN  IF missing # <<>>
           THEN /\ issues' = <<HeaderIssue(missing)>>
                /\ pc' = "header_report"
                /\ df' = df
           ELSE /\ issues' = issues
                /\ pc' = IF adapter = "flask" THEN "get_inventory" ELSE "get_sites"
                /\ df' = IF adapter = "flask" THEN WithResultColumns(df) ELSE df
    /\ UNCHANGED <<adapter, raw, remote_inventory, inv_map, idx,
                   ok, bad, calls, artifacts, error>>

\* An inventory fetch whose failure is swallowed: the run goes on with an
\* empty snapshot
GetInventorySwallow ==
    /\ pc = "get_inventory"
    /\ \E success \in BOOLEAN :
         /\ calls' = Append(calls, [op |-> "inventory", row |-> 0, mac |-> "",
                                    resp |-> IF success THEN "OK" ELSE "failed"])
         /\ inv_map' = IF success THEN BuildInvMap(remote_inventory) ELSE <<>>
         /\ pc' = "validate_rows"
         /\ error' = IF success THEN error ELSE "inventory"
    /\ UNCHANGED <<adapter, raw, remote_inventory, df, issues, idx,
                   ok, bad, artifacts>>

\* get_inventory and the serial -> item map; a failed fetch ends the run
GetInventory ==
    /\ pc = "get_inventory"
    /\ \E success \in BOOLEAN :
         /\ calls' = Append(calls, [op |-> "inventory", row |-> 0, mac |-> "",
                                    resp |-> IF success THEN "OK" ELSE "failed"])
         /\ IF success
            THEN /\ inv_map' = BuildInvMap(remote_inventory)
                 /\ pc' = "validate_rows"
                 /\ error' = error
            ELSE /\ inv_map' = inv_map
                 /\ pc' = "error"
                 /\ error' = "inventory"
    /\ UNCHANGED <<adapter, raw, remote_inventory, df, issues, idx,
                   ok, bad, artifacts>>

\* A gate that lets rows with a malformed MAC through
BlockedBySerialOnly(iss) == \E k \in 1..Len(iss) : iss[k].field = "serial number"

\* `if issues:` -- any Issue blocks the batch
Blocked(iss) == iss # <<>>

\* The row gate.  The CLI adds the result columns once the gate is passed.
ValidateRows ==
    /\ pc = "validate_rows"
    /\ issues' = _validate_rows(df, inv_map)
    /\ IF Blocked(issues')
       THEN /\ pc' = "row_report"
            /\ df' = df
       ELSE /\ pc' = "assign"
            /\ df' = IF adapter = "cli" THEN WithResultColumns(df) ELSE df
    /\ idx' = 1
    /\ UNCHANGED <<adapter, raw, remote_inventory, inv_map,
                   ok, bad, calls, artifacts, error>>

\* A MAC choice that prefers the file's MAC over the inventory's
AssignMacPreferFile(t, inv, i) ==
    LET serial   == strip(Get(t, i, "serial number")[1])
        file_mac == OrEmpty(Get(t, i, "mac address"))
    IN  normalize_mac(IF file_mac # "" THEN file_mac
                      ELSE OrEmpty(inv[serial].mac))

\* normalize_mac(inv.get("mac") or row.get("mac address") or "")
AssignMac(t, inv, i) ==
    LET serial  == strip(Get(t, i, "serial number")[1])
        inv_mac == OrEmpty(inv[serial].mac)
    IN  normalize_mac(IF inv_mac # "" THEN inv_mac
                      ELSE OrEmpty(Get(t, i, "mac address")))

\* The assign request of row idx goes out
SendAssign ==
    /\ pc = "assign"
    /\ idx <= NRows(df)
    /\ calls' = Append(calls, [op |-> "assign", row |-> idx,
                               mac |-> AssignMac(df, inv_map, idx),
                               resp |-> "pending"])
    /\ pc' = "await_assign"
    /\ UNCHANGED <<adapter, raw, remote_inventory, df, inv_map, issues, idx,
                   ok, bad, artifacts, error>>

\* An outcome writer that marks every row FAILED when one call fails
RecordOutcomeAllRows(t, i, resp) ==
    IF resp = "OK"
    THEN SetAt(t, i, "assignment status", "SUCCESS")
    ELSE [t EXCEPT !.rows = [r \in 1..NRows(t) |->
            [t.rows[r] EXCEPT ![ColIndex(t, "assignment status")] = Cell("FAILED"),
                              ![ColIndex(t, "error message")] = Cell(resp)]]]

\* The outcome written to row i for the response resp
RecordOutcome(t, i, resp) ==
    IF resp = "OK"
    THEN SetAt(t, i, "assignment status", "SUCCESS")
    ELSE SetAt(SetAt(t, i, "assignment status", "FAILED"), i, "error message", resp)

\* A loop that calls a failed row again
NextRowRetry(i, resp) == IF resp = "OK" THEN i + 1 ELSE i

\* The loop goes on to the next row whatever the response was
NextRow(i, resp) == i + 1

\* The response of the assign request arrives and is recorded on row idx
ReceiveAssign ==
    /\ pc = "await_assign"
    /\ \E resp \in Responses :
         /\ calls' = [calls EXCEPT ![Len(calls)].resp = resp]
         /\ df' = RecordOutcome(df, idx, resp)
         /\ ok' = IF resp = "OK" THEN ok + 1 ELSE ok
         /\ bad' = IF resp = "OK" THEN bad ELSE bad + 1
         /\ idx' = NextRow(idx, resp)
    /\ pc' = "assign"
    /\ UNCHANGED <<adapter, raw, remote_inventory, inv_map, issues,
                   artifacts, error>>

\* The counts returned with the result table
Summary == [success |-> ok, failed |-> bad, total |-> ok + bad]

\* df.to_csv(out): the result table is persisted
WriteResults ==
    /\ pc = "assign"
    /\ idx > NRows(df)
    /\ artifacts' = Append(artifacts, [kind |-> "results", table |-> df])
    /\ pc' = "done"
    /\ UNCHANGED <<adapter, raw, remote_inventory, df, inv_map, issues, idx,
                   ok, bad, calls, error>>

\* The report of a missing-column failure.  Flask re-reads and normalizes the
\* file and passes all its rows; the CLI passes df.iloc[0:0].
HeaderReport ==
    /\ pc = "header_report"
    /\ artifacts' = Append(artifacts,
          [kind  |-> "report",
           table |-> IF adapter = "flask"
                     THEN create_error_report(_normalize_dataframe(raw), issues)
                     ELSE create_validation_report(NoRows(df), issues)])
    /\ pc' = "blocked"
    /\ UNCHANGED <<adapter, raw, remote_inventory, df, inv_map, issues, idx,
                   ok, bad, calls, error>>

\* The report of a row-validation failure
RowReport ==
    /\ pc = "row_report"
    /\ artifacts' = Append(artifacts,
          [kind  |-> "report",
           table |-> IF adapter = "flask"
                     THEN create_error_report(_normalize_dataframe(raw), issues)
                     ELSE create_validation_report(df, issues)])
    /\ pc' = "blocked"
    /\ UNCHANGED <<adapter, raw, remote_inventory, df, inv_map, issues, idx,
                   ok, bad, calls, error>>

Next ==
    \/ Upload
    \/ GetSites
    \/ ReadNormalize
    \/ ValidateHeaders
    \/ GetInventory
    \/ ValidateRows
    \/ SendAssign
    \/ ReceiveAssign
    \/ WriteResults
    \/ HeaderReport
    \/ RowReport

Spec == Init /\ [][Next]_vars

-----------------------------------------------------------------------------
\* Vocabulary of the properties

AssignCalls == SelectSeq(calls, LAMBDA c : c.op = "assign")

NoAssignCalls == AssignCalls = <<>>

InventoryFetched ==
    \E k \in 1..Len(calls) : calls[k].op = "inventory" /\ calls[k].resp = "OK"

\* The row validator has run
RowsValidated == InventoryFetched /\ pc # "validate_rows"

\* The schema check has run
SchemaChecked ==
    /\ pc \notin {"read", "validate_headers"}
    /\ ~(adapter = "flask" /\ (pc \in {"upload", "get_sites"} \/ error = "sites"))

\* The input file after normalization
InputTable == _normalize_dataframe(raw)

\* The header of the input file after normalization
InputColumns == [j \in 1..Len(raw.columns) |-> NormalizeHeader(raw.columns[j])]

\* The required columns the normalized header lacks
MissingColumns ==
    {REQUIRED_COLUMNS[k] : k \in 1..Len(REQUIRED_COLUMNS)} \
        {InputColumns[j] : j \in 1..Len(raw.columns)}

IsSubstring(sub, s) ==
    \E a \in 1..(Len(s) - Len(sub) + 1) : SubSeq(s, a, a + Len(sub) - 1) = sub

Count(s, chars) == Cardinality({k \in 1..Len(s) : SubSeq(s, k, k) \in chars})

\* The cell of input row i under the (normalized) column col, "" when absent
Input(i, col) ==
    LET columns == InputColumns
        at      == {j \in 1..Len(columns) : columns[j] = col}
    IN  IF at = {} THEN ""
        ELSE NormalizeCell(raw.rows[i][CHOOSE j \in at : TRUE])[1]

IssuesOfRow(r) == SelectSeq(issues, LAMBDA i : i.row = r)

\* The serials the remote inventory knows, as the snapshot keys them
KnownSerials ==
    {strip(remote_inventory[k].serial[1]) :
        k \in {l \in 1..Len(remote_inventory) :
                 remote_inventory[l].serial \notin {NaN, Cell("")}}}

-----------------------------------------------------------------------------
\* C1: all-or-none gate -- whenever the Issue list of the schema validator or
\* of the row validator is non-empty, the run has issued no assign call.
C1_AllOrNone == issues # <<>> => NoAssignCalls

\* A blocked run whose first row is valid and whose second row has an Issue
C1_Witness ==
    /\ pc = "blocked"
    /\ NRows(raw) = 2
    /\ Len(issues) = 1
    /\ issues[1].row = 2
    /\ NoAssignCalls

\* C2 as stated: with a required column missing the run ends with exactly one
\* Issue (row 0) naming every missing column, no per-row Issue, and no remote
\* call at all (no site-catalog fetch, no inventory fetch, no assign call).
C2_SchemaGateNoRemoteCall ==
    (SchemaChecked /\ MissingColumns # {}) =>
        /\ pc \in {"header_report", "blocked"}
        /\ Len(issues) = 1
        /\ issues[1].row = 0
        /\ \A c \in MissingColumns : IsSubstring(c, issues[1].value)
        /\ calls = <<>>

\* C2 amended: with a required column missing the run ends with exactly one
\* Issue (row 0) naming every missing column, no per-row Issue, and neither an
\* inventory fetch nor an assign call; the CLI has made no remote call at all,
\* the web adapter has fetched the site catalog (once in upload, once in run,
\* and nothing else) before the schema check.
C2_SchemaGate ==
    (SchemaChecked /\ MissingColumns # {}) =>
        /\ pc \in {"header_report", "blocked"}
        /\ Len(issues) = 1
        /\ issues[1].row = 0
        /\ \A c \in MissingColumns : IsSubstring(c, issues[1].value)
        /\ \A k \in 1..Len(calls) : calls[k].op = "sites"
        /\ adapter = "cli" => calls = <<>>
        /\ adapter = "flask" => Len(calls) = 2 /\ calls[2].resp = "OK"

\* A web run blocked by two or more missing columns over a file with data rows
C2_Witness ==
    /\ pc = "blocked"
    /\ adapter = "flask"
    /\ Cardinality(MissingColumns) >= 2
    /\ NRows(raw) >= 1
    /\ issues[1].row = 0

\* The first check that applies to input row i, "" when none does
ExpectedFinding(i) ==
    LET serial == Input(i, "serial number")
        mac    == normalize_mac(Input(i, "mac address"))
    IN  IF serial = "" THEN "blank"
        ELSE IF serial \notin KnownSerials THEN "unknown"
        ELSE IF mac # "" /\ Count(mac, {":"}) # 5 THEN "mac"
        ELSE ""

FindingOf(issue) ==
    IF issue.field = "mac address" THEN "mac"
    ELSE IF issue.field = "serial number" /\ issue.value = "" THEN "blank"
    ELSE IF issue.field = "serial number" THEN "unknown"
    ELSE "other"

\* C3: the row validator visits every row and emits at most one Issue per
\* row, the first that applies of blank serial, serial unknown to the snapshot
\* (exact, case-sensitive), malformed file MAC; a clean row yields no Issue;
\* the Issues are in ascending row order.
C3_RowValidator ==
    RowsValidated =>
        /\ \A k \in 1..Len(issues) : issues[k].row \in 1..NRows(raw)
        /\ \A k \in 1..Len(issues) - 1 : issues[k].row < issues[k + 1].row
        /\ \A i \in 1..NRows(raw) :
             LET expected == ExpectedFinding(i)
                 found    == IssuesOfRow(i)
             IN  IF expected = ""
                 THEN found = <<>>
                 ELSE /\ Len(found) = 1
                      /\ FindingOf(found[1]) = expected

\* Two bad rows: a blank serial with a malformed MAC, then a serial that
\* differs from an inventory serial only by case
C3_Witness ==
    /\ RowsValidated
    /\ Len(issues) = 2
    /\ issues[1].message = "Serial Number is blank"
    /\ Input(1, "mac address") = "aa:bb:cc"
    /\ issues[2].message = "Serial not found in Mist org inventory"
    /\ issues[2].value = "a1"
    /\ "A1" \in KnownSerials

\* The outcome columns of row i of the result table
Status(i) == OrEmpty(Get(df, i, "assignment status"))
ErrorMessage(i) == OrEmpty(Get(df, i, "error message"))

\* C4: best-effort execution -- every answered assign call is recorded on its
\* own row, SUCCESS for a success and FAILED with the error detail for a
\* failure, and on no other row; a failure neither ends the run nor becomes a
\* pipeline error; at the end every row is SUCCESS or FAILED and
\* success + failed = total = number of rows.
C4_BestEffort ==
    ~NoAssignCalls =>
        /\ pc \in {"assign", "await_assign", "done"}
        /\ error = ""
        /\ \A k \in 1..Len(AssignCalls) :
             LET c == AssignCalls[k]
             IN  /\ c.row \in 1..NRows(df)
                 /\ c.resp = "OK" =>
                      Status(c.row) = "SUCCESS" /\ ErrorMessage(c.row) = ""
                 /\ c.resp \in ErrorDetails =>
                      Status(c.row) = "FAILED" /\ ErrorMessage(c.row) = c.resp
                 /\ c.resp = "pending" => Status(c.row) = ""
        /\ \A i \in 1..NRows(df) :
             (\A k \in 1..Len(AssignCalls) : AssignCalls[k].row # i) =>
                 Status(i) = "" /\ ErrorMessage(i) = ""
        /\ ok = Cardinality({i \in 1..NRows(df) : Status(i) = "SUCCESS"})
        /\ bad = Cardinality({i \in 1..NRows(df) : Status(i) = "FAILED"})
        /\ pc = "done" =>
             /\ \A i \in 1..NRows(df) : Status(i) \in {"SUCCESS", "FAILED"}
             /\ Summary.success + Summary.failed = Summary.total
             /\ Summary.total = NRows(raw)
             /\ artifacts = <<[kind |-> "results", table |-> df]>>

\* Two valid rows: the call of row 1 succeeds, the call of row 2 fails
C4_Witness ==
    /\ pc = "done"
    /\ NRows(df) = 2
    /\ Status(1) = "SUCCESS"
    /\ Status(2) = "FAILED"
    /\ ErrorMessage(2) = "500 Server Error"
    /\ Summary = [success |-> 1, failed |-> 1, total |-> 2]

HexDigits == "0123456789abcdef"

IsHexPair(g) ==
    /\ Len(g) = 2
    /\ \A k \in 1..2 : Contains(HexDigits, SubSeq(g, k, k))

\* lower-case, colon-separated, 6 groups of 2 hex digits
IsCanonicalMac(m) ==
    /\ Len(m) = 17
    /\ \A k \in 1..6 : IsHexPair(SubSeq(m, 3 * k - 2, 3 * k - 1))
    /\ \A k \in 1..5 : SubSeq(m, 3 * k, 3 * k) = ":"

\* Input row i passed the serial checks and carries a file MAC
HasCheckedMac(i) ==
    LET serial == Input(i, "serial number")
    IN  /\ Input(i, "mac address") # ""
        /\ serial # ""
        /\ serial \in KnownSerials

\* C5 as stated: for every non-empty file MAC, the row is accepted only if the
\* canonical form of the MAC is lower-case, colon-separated, 6 groups of 2 hex
\* digits; any other shape is flagged with a "mac address" Issue.
C5_MacAcceptedOnlyIfCanonical ==
    RowsValidated =>
        \A i \in 1..NRows(raw) :
            Input(i, "mac address") # "" =>
                /\ IssuesOfRow(i) = <<>> =>
                     IsCanonicalMac(normalize_mac(Input(i, "mac address")))
                /\ ~IsCanonicalMac(normalize_mac(Input(i, "mac address"))) =>
                     /\ Len(IssuesOfRow(i)) = 1
                     /\ IssuesOfRow(i)[1].field = "mac address"

\* The shape the validator accepts, read off the file value: six groups
\* separated by colons or hyphens, or 12 characters with no separator
SixGroups(mac) ==
    \/ Count(mac, {":", "-"}) = 5
    \/ Count(mac, {":", "-"}) = 0 /\ Len(mac) = 12

\* C5 amended: for every non-empty file MAC, hyphens become colons and a bare
\* 12-character value is split into 6 groups of 2.  On a row whose serial is
\* blank or unknown to the snapshot the MAC is not checked: the row carries its
\* one "serial number" Issue and no "mac address" Issue.  On every other row
\* the validator accepts the MAC exactly when the result has 6 colon-separated
\* groups (whether or not the groups are 2 hex digits) and flags every other
\* value with one "mac address" Issue carrying the file value.
C5_MacSixGroups ==
    RowsValidated =>
        \A i \in 1..NRows(raw) :
            LET mac    == Input(i, "mac address")
                serial == Input(i, "serial number")
                m      == normalize_mac(mac)
                found  == IssuesOfRow(i)
            IN  mac # "" =>
                    /\ Count(m, {"-"}) = 0
                    /\ Len(mac) = 12 /\ Count(mac, {":", "-"}) = 0 =>
                         /\ Len(m) = 17
                         /\ \A k \in 1..6 :
                              SubSeq(m, 3 * k - 2, 3 * k - 1)
                                = lower(SubSeq(mac, 2 * k - 1, 2 * k))
                    /\ IF serial = "" \/ serial \notin KnownSerials
                       THEN /\ Len(found) = 1
                            /\ found[1].field = "serial number"
                       ELSE IF SixGroups(mac)
                       THEN found = <<>>
                       ELSE /\ Len(found) = 1
                            /\ found[1].field = "mac address"
                            /\ found[1].value = mac

\* A file with a hyphenated MAC (accepted) and a 3-group MAC (flagged)
C5_Witness ==
    /\ RowsValidated
    /\ NRows(raw) = 2
    /\ HasCheckedMac(1) /\ HasCheckedMac(2)
    /\ Input(1, "mac address") = "AA-BB-CC-DD-EE-FF"
    /\ Input(2, "mac address") = "aa:bb:cc"
    /\ Len(issues) = 1
    /\ issues[1].row = 2

\* The validation report the run has written
Report == artifacts[1].table

IssueColumns == <<"issue", "issue_field", "issue_value">>

\* The three issue cells the report should show for input row r
IssueCells(r) ==
    IF IssuesOfRow(r) = <<>>
    THEN <<Cell(""), Cell(""), Cell("")>>
    ELSE <<Cell(IssuesOfRow(r)[1].message), Cell(IssuesOfRow(r)[1].field),
           Cell(IssuesOfRow(r)[1].value)>>

\* C6: row numbering -- the Issues of the row validator carry row numbers in
\* 1..N, an Issue with row = r is about the r-th input row, the report keeps
\* the N input rows in input order and shows the Issue of row r on its r-th
\* row and on no other; rows without an Issue have empty issue columns.
C6_RowNumbering ==
    (RowsValidated /\ pc = "blocked") =>
        /\ \A k \in 1..Len(issues) : issues[k].row \in 1..NRows(raw)
        /\ \A k \in 1..Len(issues) :
             issues[k].value = Input(issues[k].row, issues[k].field)
        /\ Report.columns = InputTable.columns \o IssueColumns
        /\ NRows(Report) = NRows(raw)
        /\ \A r \in 1..NRows(raw) :
             Report.rows[r] = InputTable.rows[r] \o IssueCells(r)

\* Two different rows, the first clean and the second with an unknown serial
C6_Witness ==
    /\ RowsValidated
    /\ pc = "blocked"
    /\ NRows(raw) = 2
    /\ InputTable.rows[1] # InputTable.rows[2]
    /\ Len(issues) = 1
    /\ issues[1].row = 2
    /\ issues[1].message = "Serial not found in Mist org inventory"
    /\ OrEmpty(Get(Report, 1, "issue")) = ""
    /\ OrEmpty(Get(Report, 2, "issue")) = "Serial not found in Mist org inventory"

\* The report builder was handed no data rows: the CLI always hands it
\* df.iloc[0:0] on a header failure, the web adapter hands it the file's rows
GivenZeroRows == adapter = "cli" \/ NRows(raw) = 0

\* C7: report degeneration -- given zero data rows and a header-level Issue,
\* the report has exactly one row holding only the columns issue, issue_field
\* and issue_value, filled from the Issue's message, field and value.
C7_ReportDegeneration ==
    (pc = "blocked" /\ issues[1].row = 0 /\ GivenZeroRows) =>
        /\ Report.columns = IssueColumns
        /\ Report.rows = << <<Cell(issues[1].message), Cell(issues[1].field),
                              Cell(issues[1].value)>> >>

IsTrimmed(s) ==
    s = "" \/ (Head(s) \notin Whitespace /\ SubSeq(s, Len(s), Len(s)) \notin Whitespace)

IsLowerCase(s) == \A k \in 1..Len(s) : SubSeq(s, k, k) \notin Upper

\* C8: normalizer idempotence -- normalizing the normalized table yields the
\* same table; its headers are trimmed and lower-case, every cell is a
\* trimmed string, a missing cell is the empty string.
C8_NormalizerIdempotent ==
    pc = "validate_headers" =>
        /\ _normalize_dataframe(df) = df
        /\ Len(df.columns) = Len(raw.columns)
        /\ NRows(df) = NRows(raw)
        /\ \A j \in 1..Len(df.columns) :
             IsTrimmed(df.columns[j]) /\ IsLowerCase(df.columns[j])
        /\ \A i \in 1..NRows(df), j \in 1..Len(df.columns) :
             /\ df.rows[i][j] # NaN
             /\ IsTrimmed(df.rows[i][j][1])
             /\ raw.rows[i][j] = NaN => df.rows[i][j] = Cell("")

\* A file with padded mixed-case headers, a missing cell and a blank cell
C8_Witness ==
    /\ pc = "validate_headers"
    /\ df # raw
    /\ \E j \in 1..Len(raw.columns) :
         ~IsTrimmed(raw.columns[j]) /\ ~IsLowerCase(raw.columns[j])
    /\ \E i \in 1..NRows(raw), j \in 1..Len(raw.columns) : raw.rows[i][j] = NaN
    /\ \E i \in 1..NRows(raw), j \in 1..Len(raw.columns) : raw.rows[i][j] = Cell("  ")

\* No action can be taken: the run has stopped
Stopped == ~ENABLED Next

\* C9: a failed inventory fetch is fatal -- the run stops with one terminal
\* error, no Issue list, no assign call and no artifact.
C9_FetchFailureFatal ==
    (\E k \in 1..Len(calls) : calls[k].op = "inventory" /\ calls[k].resp = "failed") =>
        /\ pc = "error"
        /\ error = "inventory"
        /\ Stopped
        /\ inv_map = <<>>
        /\ issues = <<>>
        /\ NoAssignCalls
        /\ artifacts = <<>>

\* The fetch failed for a file with data rows and all required columns
C9_Witness ==
    /\ error = "inventory"
    /\ NRows(raw) = 2
    /\ MissingColumns = {}

\* C10: no retries, row order -- the k-th assign call is the call of row k,
\* so there is one call per row in ascending order and no row is called
\* twice; a call goes out only when every earlier row has its outcome
\* recorded; a finished run has issued exactly N calls.
C10_OneCallPerRowInOrder ==
    /\ Len(AssignCalls) <= NRows(raw)
    /\ \A k \in 1..Len(AssignCalls) :
         /\ AssignCalls[k].row = k
         /\ \A j \in 1..(k - 1) :
              /\ AssignCalls[j].resp # "pending"
              /\ Status(j) \in {"SUCCESS", "FAILED"}
    /\ pc = "done" => Len(AssignCalls) = NRows(raw)

\* A finished run over two rows whose first call failed
C10_Witness ==
    /\ pc = "done"
    /\ NRows(raw) = 2
    /\ Len(AssignCalls) = 2
    /\ AssignCalls[1].resp = "400 Client Error"
    /\ AssignCalls[2].resp = "OK"

\* The inventory item the snapshot holds for a serial: the last item of the
\* remote inventory whose trimmed serial is that serial
ItemOf(serial) ==
    LET hits == {k \in 1..Len(remote_inventory) :
                   /\ remote_inventory[k].serial \notin {NaN, Cell("")}
                   /\ strip(remote_inventory[k].serial[1]) = serial}
    IN  remote_inventory[CHOOSE k \in hits : \A l \in hits : l <= k]

InventoryMac(i) == OrEmpty(ItemOf(Input(i, "serial number")).mac)

\* C11: MAC source preference -- the MAC of every assign call is the
\* canonicalized inventory MAC of the row's serial whenever that MAC is
\* non-empty, whatever the file says; the canonicalized file MAC is sent only
\* when the inventory item has no MAC.
C11_MacSourcePreference ==
    \A k \in 1..Len(AssignCalls) :
        LET c == AssignCalls[k]
        IN  IF InventoryMac(c.row) # ""
            THEN c.mac = normalize_mac(InventoryMac(c.row))
            ELSE c.mac = normalize_mac(Input(c.row, "mac address"))

\* Row 1 has a file MAC and no inventory MAC; row 2 has both, and they differ
C11_Witness ==
    /\ Len(AssignCalls) = 2
    /\ InventoryMac(1) = ""
    /\ Input(1, "mac address") # ""
    /\ AssignCalls[1].mac = normalize_mac(Input(1, "mac address"))
    /\ InventoryMac(2) # ""
    /\ Input(2, "mac address") # ""
    /\ normalize_mac(Input(2, "mac address")) # normalize_mac(InventoryMac(2))
    /\ AssignCalls[2].mac = normalize_mac(InventoryMac(2))

\* C12: every assign call carries a non-empty MAC in canonical form, 6
\* colon-separated groups, also for rows with a blank file MAC and for
\* inventory items whose MAC is missing or malformed.
C12_AssignMacCanonical ==
    \A k \in 1..Len(AssignCalls) :
        /\ AssignCalls[k].mac # ""
        /\ Count(AssignCalls[k].mac, {":"}) = 5

\* Row r of the report shows the Issue in its three issue columns
ShownOnRow(issue, r) ==
    /\ IsSubstring(issue.message, OrEmpty(Get(Report, r, "issue")))
    /\ IsSubstring(issue.field, OrEmpty(Get(Report, r, "issue_field")))
    /\ IsSubstring(issue.value, OrEmpty(Get(Report, r, "issue_value")))

\* C13: the report builder loses no Issue -- the message, field and value of
\* every Issue passed to it, a header-level Issue (row 0) passed together with
\* data rows included, appear in the issue columns of some row of the report.
C13_NoIssueLost ==
    pc = "blocked" =>
        \A k \in 1..Len(issues) :
            \E r \in 1..NRows(Report) : ShownOnRow(issues[k], r)

====
